---- MODULE Spec2Model ----
(***************************************************************************)
(* State-machine model of train.py: the streaming training-batch generator *)
(* (validate_length, custom_generator), the checkpoint writer              *)
(* (save_checkpoint) and the training driver (__main__).                   *)
(*                                                                         *)
(* An array of the program is modelled by the raw positions it holds, run  *)
(* by run: the array is a sequence of runs, and the run                    *)
(* [kind, stem, lo, hi, dim] stands for the elements of kind `kind` at     *)
(* positions lo .. hi - 1 (0-based, as in Python) of the file with that    *)
(* stem. Kind "x" is a raw waveform sample, "q" a sample after             *)
(* wav_transform, "h" a raw feature frame, "z" a frame after               *)
(* feat_transform (a trailing "s": with the speaker code appended); dim is *)
(* 0 for whole frames and samples and d for component d of a frame. No run *)
(* is empty and adjacent runs that continue each other are merged, so      *)
(* that equal arrays have equal models. Length, Elem, Take, Drop and       *)
(* Concat are len(), indexing, slicing and concatenation on that form.     *)
(* This keeps every emitted window traceable to the raw positions it was   *)
(* cut from, at any file length.                                           *)
(***************************************************************************)
EXTENDS Integers, Sequences, FiniteSets, TLC

VARIABLES
    \* the inputs of the program: the corpus on disk, the generator's
    \* parameters and the command lines of the successive invocations
    corpus, receptive_field, batch_size, plan,
    \* custom_generator: control point and locals
    gpc, wav_list, feat_list, cursor, x, h, x_buffer, h_buffer, x_, h_,
    batch_x, batch_h, batch_target,
    \* history of the generator: windows yielded from the current file,
    \* stems loaded in the current pass
    nwin, loaded,
    \* __main__: control point, parsed arguments and locals
    run, dpc, args, model, iterations, i, loss, total, loss_target,
    checkpoint, exit_code,
    \* the checkpoint directory, the log of save_checkpoint, the last
    \* progress report
    store, saves, report,
    \* history of the driver: loop indices processed by the current run,
    \* iterations accumulated in the rolling counters
    seen, nacc,
    \* further history: batches yielded in the current pass, the loss
    \* targets taken from the current file in this pass, the calls of
    \* logging.error of the current run
    npass, targeted, errors

genvars == <<gpc, wav_list, feat_list, cursor, x, h, x_buffer, h_buffer, x_, h_,
             batch_x, batch_h, batch_target, nwin, loaded>>
inputs == <<corpus, receptive_field, batch_size, plan>>
mainvars == <<run, dpc, args, model, iterations, i, loss, total, loss_target,
              checkpoint, exit_code, store, saves, report, seen, nacc>>
histvars == <<npass, targeted, errors>>
vars == <<inputs, genvars, mainvars, histvars>>

(***************************************************************************)
(* Bounds of the model.                                                    *)
(***************************************************************************)
MaxFiles == 2
MaxLen == 5
MaxDrift == 1
MaxReceptive == 1
MaxBatch == 2
FeatDim == 1
GenIters == 6
MaxIters == 4
MaxCheckpoint == 2
MaxInterval == 2

\* Python's None (batch_size=None, resume=None), also a local that has no
\* value yet
None == -1

Min(a, b) == IF a < b THEN a ELSE b

(***************************************************************************)
(* Arrays as runs of raw positions, and Python's operations on them.       *)
(***************************************************************************)
Run(kind, stem, lo, hi) == [kind |-> kind, stem |-> stem, lo |-> lo, hi |-> hi, dim |-> 0]
\* the first n elements of kind `kind` of the file with that stem
Whole(kind, stem, n) == IF n > 0 THEN <<Run(kind, stem, 0, n)>> ELSE <<>>

RECURSIVE Length(_)
\* len(v)
Length(v) == IF v = <<>> THEN 0 ELSE (Head(v).hi - Head(v).lo) + Length(Tail(v))

RECURSIVE Elem(_, _)
\* v[k - 1]: the k-th element, 1 <= k <= Length(v)
Elem(v, k) ==
    LET r == Head(v)
    IN  IF k <= r.hi - r.lo
        THEN [kind |-> r.kind, stem |-> r.stem, dim |-> r.dim, pos |-> r.lo + k - 1]
        ELSE Elem(Tail(v), k - (r.hi - r.lo))
Elems(v) == {Elem(v, k) : k \in 1..Length(v)}

RECURSIVE Take(_, _)
\* v[:n], n >= 0
Take(v, n) ==
    IF v = <<>> \/ n <= 0 THEN <<>>
    ELSE LET r == Head(v)
         IN  IF n >= r.hi - r.lo
             THEN <<r>> \o Take(Tail(v), n - (r.hi - r.lo))
             ELSE <<[r EXCEPT !.hi = r.lo + n]>>

RECURSIVE Drop(_, _)
\* v[n:], n >= 0
Drop(v, n) ==
    IF v = <<>> \/ n <= 0 THEN v
    ELSE LET r == Head(v)
         IN  IF n >= r.hi - r.lo
             THEN Drop(Tail(v), n - (r.hi - r.lo))
             ELSE <<[r EXCEPT !.lo = r.lo + n]>> \o Tail(v)

\* v[:-1]
DropLast(v) == Take(v, Length(v) - 1)

\* np.concatenate([a, b], axis=0)
Concat(a, b) ==
    IF a = <<>> THEN b
    ELSE IF b = <<>> THEN a
    ELSE LET l == a[Len(a)]
             f == b[1]
         IN  IF l.kind = f.kind /\ l.stem = f.stem /\ l.dim = f.dim /\ l.hi = f.lo
             THEN SubSeq(a, 1, Len(a) - 1) \o <<[l EXCEPT !.hi = f.hi]>> \o Tail(b)
             ELSE a \o b

\* the same array with every element turned into kind f[its kind]
MapKind(v, f) == [j \in 1..Len(v) |-> [v[j] EXCEPT !.kind = f[v[j].kind]]]

(***************************************************************************)
(* The corpus: file stem s (the position of the file name in sorted order) *)
(* has corpus[s].m waveform samples and corpus[s].n feature frames.        *)
(***************************************************************************)
\* main calls custom_generator(..., shuffle=True, use_speaker_code=False)
shuffle == TRUE
use_speaker_code == FALSE

FeatWidth == FeatDim + (IF use_speaker_code THEN 1 ELSE 0)

WavPath(s) == <<"wav", s>>
FeatPath(s) == <<"h5", s>>

\* sf.read(wavfile): the samples of the file
ReadWav(path) == Whole("x", path[2], corpus[path[2]].m)
\* read_hdf5(featfile, "/feat"): the frames of the file, FeatDim values each
ReadFeat(path) == Whole("h", path[2], corpus[path[2]].n)
\* read_hdf5(featfile, "/speaker_code") tiled to every frame and appended
TileSpeakerCode(path, hs) == MapKind(hs, [k \in {"h"} |-> "hs"])

\* wav_transform, feat_transform: element-wise maps of a slice
wav_transform(s) == MapKind(s, [k \in {"x"} |-> "q"])
feat_transform(s) == MapKind(s, [k \in {"h", "hs"} |-> IF k = "h" THEN "z" ELSE "zs"])

\* a[T][D] -> a[D][T]   (.transpose(0, 1)): one row per component
Transpose(hs) ==
    [d \in 1..FeatWidth |-> [j \in 1..Len(hs) |-> [hs[j] EXCEPT !.dim = d]]]
\* .unsqueeze(0): a leading batch axis of size 1
Unsqueeze(a) == <<a>>

(***************************************************************************)
(* validate_length                                                         *)
(***************************************************************************)
\* no trimming, the assertion compiled away
validate_length_no_trim(xs, ys) == [x |-> xs, y |-> ys, ok |-> TRUE]

validate_length_keep_y(xs, ys) ==
    LET x1 == IF Length(xs) > Length(ys) THEN Take(xs, Length(ys)) ELSE xs
    IN  [x |-> x1, y |-> ys, ok |-> Length(x1) = Length(ys)]

\* lines 23-29; ok is the assertion of line 27
validate_length(xs, ys) ==
    LET y1 == IF Length(xs) < Length(ys) THEN Take(ys, Length(xs)) ELSE ys
        x1 == IF Length(xs) > Length(y1) THEN Take(xs, Length(y1)) ELSE xs
    IN  [x |-> x1, y |-> y1, ok |-> Length(x1) = Length(y1)]

(***************************************************************************)
(* custom_generator                                                        *)
(***************************************************************************)
Perms(n) == {f \in [1..n -> 1..n] : \A a, b \in 1..n : f[a] = f[b] => a = b}

\* [list[i] for i in idx] for the waveform list only
ApplyIdxWavOnly(list, idx) ==
    [j \in 1..Len(idx) |-> IF list[1][1] = "wav" THEN list[idx[j]] ELSE list[j]]

\* [list[i] for i in idx] with a repeated index
ApplyIdxRepeat(list, idx) == [j \in 1..Len(idx) |-> list[idx[1]]]

\* [list[i] for i in idx]
ApplyIdx(list, idx) == [j \in 1..Len(idx) |-> list[idx[j]]]

DrainCondInclusive(buf) == Length(buf) >= receptive_field + batch_size

\* while len(x_buffer) > receptive_field + batch_size
DrainCond(buf) == Length(buf) > receptive_field + batch_size

WindowSliceShort(buf) == Take(buf, batch_size)

\* x_buffer[:receptive_field + batch_size]
WindowSlice(buf) == Take(buf, receptive_field + batch_size)

AdvanceByWindow(buf) == Drop(buf, receptive_field + batch_size)

\* x_buffer[batch_size:]
Advance(buf) == Drop(buf, batch_size)

SeedBufferKeep(old, new) == Concat(old, new)

\* lines 63-66: the buffer is created empty and the file appended to it,
\* whatever the buffer held before
SeedBuffer(old, new) == Concat(<<>>, new)

TargetOfUnshifted(s) == DropLast(s)

InputOfWindow(s) == DropLast(Take(s, receptive_field + 1))

\* x_[:-1]
InputOf(s) == DropLast(s)
\* x_[1:]
TargetOf(s) == Drop(s, 1)

\* lines 37-46: list the corpus, build the two parallel lists, shuffle
GenStart ==
    /\ dpc = "pull" /\ gpc = "init"
    /\ LET n_files == Len(corpus)
           wl == [s \in 1..n_files |-> WavPath(s)]
           fl == [s \in 1..n_files |-> FeatPath(s)]
       IN  IF shuffle
           THEN \E idx \in Perms(n_files) :
                    /\ wav_list' = ApplyIdx(wl, idx)
                    /\ feat_list' = ApplyIdx(fl, idx)
           ELSE wav_list' = wl /\ feat_list' = fl
    /\ cursor' = 1
    /\ loaded' = <<>>
    /\ gpc' = "for"
    /\ UNCHANGED <<x, h, x_buffer, h_buffer, x_, h_, batch_x, batch_h,
                   batch_target, nwin>>
    /\ UNCHANGED <<inputs, mainvars>>
    /\ npass' = 0
    /\ UNCHANGED <<targeted, errors>>

\* the file pair the for loop is at, read and aligned (lines 50-59)
Loaded ==
    LET wavfile == wav_list[cursor]
        featfile == feat_list[cursor]
        x0 == ReadWav(wavfile)
        h0 == ReadFeat(featfile)
        h1 == IF use_speaker_code THEN TileSpeakerCode(featfile, h0) ELSE h0
    IN  validate_length(x0, h1)

\* lines 50-66, fixed-batch mode: load the next pair, seed the buffers
GenLoad ==
    /\ dpc = "pull" /\ gpc = "for" /\ cursor <= Len(wav_list)
    /\ batch_size # None
    /\ x' = Loaded.x /\ h' = Loaded.y
    /\ loaded' = Append(loaded, wav_list[cursor][2])
    /\ nwin' = 0
    /\ IF Loaded.ok
       THEN /\ x_buffer' = SeedBuffer(x_buffer, Loaded.x)
            /\ h_buffer' = SeedBuffer(h_buffer, Loaded.y)
            /\ gpc' = "while"
            /\ UNCHANGED <<dpc, exit_code>>
       ELSE \* AssertionError out of validate_length ends the process
            /\ gpc' = "raised" /\ dpc' = "crash" /\ exit_code' = 1
            /\ UNCHANGED <<x_buffer, h_buffer>>
    /\ UNCHANGED <<wav_list, feat_list, cursor, x_, h_, batch_x, batch_h, batch_target>>
    /\ UNCHANGED <<inputs, run, args, model, iterations, i, loss, total,
                   loss_target, checkpoint, store, saves, report, seen, nacc>>
    /\ targeted' = <<>>
    /\ UNCHANGED <<npass, errors>>

\* lines 68-81: cut one window off the head of the buffers and yield it.
\* x_ and h_ keep the slices of lines 69-70; the transformed slices of
\* lines 73 and 75 are the ones the batch is made of.
GenWindow ==
    /\ dpc = "pull" /\ gpc = "while"
    /\ DrainCond(x_buffer)
    /\ x_' = WindowSlice(x_buffer)
    /\ h_' = WindowSlice(h_buffer)
    /\ batch_x' = Unsqueeze(InputOf(wav_transform(x_')))
    /\ batch_h' = Unsqueeze(Transpose(DropLast(feat_transform(h_'))))
    /\ batch_target' = TargetOf(wav_transform(x_'))
    /\ nwin' = nwin + 1
    /\ gpc' = "yieldA"
    /\ dpc' = "update"
    /\ UNCHANGED <<wav_list, feat_list, cursor, x, h, x_buffer, h_buffer, loaded>>
    /\ UNCHANGED <<inputs, run, args, model, iterations, i, loss, total,
                   loss_target, checkpoint, exit_code, store, saves, report,
                   seen, nacc>>
    /\ npass' = npass + 1
    /\ UNCHANGED <<targeted, errors>>

\* lines 83-84: resumed after the yield, advance both buffers
GenAdvance ==
    /\ dpc = "pull" /\ gpc = "yieldA"
    /\ x_buffer' = Advance(x_buffer)
    /\ h_buffer' = Advance(h_buffer)
    /\ gpc' = "while"
    /\ UNCHANGED <<wav_list, feat_list, cursor, x, h, x_, h_, batch_x, batch_h,
                   batch_target, nwin, loaded>>
    /\ UNCHANGED <<inputs, mainvars>>
    /\ UNCHANGED <<npass, targeted, errors>>

\* line 68 false: the drain loop of this file ends, the for loop moves on
GenFileDone ==
    /\ dpc = "pull" /\ gpc = "while"
    /\ ~DrainCond(x_buffer)
    /\ cursor' = cursor + 1
    /\ gpc' = "for"
    /\ UNCHANGED <<wav_list, feat_list, x, h, x_buffer, h_buffer, x_, h_,
                   batch_x, batch_h, batch_target, nwin, loaded>>
    /\ UNCHANGED <<inputs, mainvars>>
    /\ UNCHANGED <<npass, targeted, errors>>

\* lines 50-59 and 87-97, whole-utterance mode: load the next pair and
\* yield it as one batch
GenUtterance ==
    /\ dpc = "pull" /\ gpc = "for" /\ cursor <= Len(wav_list)
    /\ batch_size = None
    /\ loaded' = Append(loaded, wav_list[cursor][2])
    /\ IF Loaded.ok
       THEN /\ x' = wav_transform(Loaded.x)
            /\ h' = feat_transform(Loaded.y)
            /\ batch_x' = Unsqueeze(InputOf(x'))
            /\ batch_h' = Unsqueeze(Transpose(DropLast(h')))
            /\ batch_target' = TargetOf(x')
            /\ nwin' = 1
            /\ gpc' = "yieldB"
            /\ dpc' = "update"
            /\ UNCHANGED exit_code
       ELSE /\ gpc' = "raised" /\ dpc' = "crash" /\ exit_code' = 1
            /\ x' = Loaded.x /\ h' = Loaded.y
            /\ UNCHANGED <<batch_x, batch_h, batch_target, nwin>>
    /\ UNCHANGED <<wav_list, feat_list, cursor, x_buffer, h_buffer, x_, h_>>
    /\ UNCHANGED <<inputs, run, args, model, iterations, i, loss, total,
                   loss_target, checkpoint, store, saves, report, seen, nacc>>
    /\ npass' = (IF Loaded.ok THEN npass + 1 ELSE npass)
    /\ targeted' = <<>>
    /\ UNCHANGED errors

\* resumed after the yield of line 97: the for loop moves on
GenUtteranceDone ==
    /\ dpc = "pull" /\ gpc = "yieldB"
    /\ cursor' = cursor + 1
    /\ gpc' = "for"
    /\ UNCHANGED <<wav_list, feat_list, x, h, x_buffer, h_buffer, x_, h_,
                   batch_x, batch_h, batch_target, nwin, loaded>>
    /\ UNCHANGED <<inputs, mainvars>>
    /\ UNCHANGED <<npass, targeted, errors>>

\* lines 99-103 and back to line 49: the for loop is exhausted, re-shuffle
GenReshuffle ==
    /\ dpc = "pull" /\ gpc = "for" /\ cursor > Len(wav_list)
    /\ IF shuffle
       THEN \E idx \in Perms(Len(wav_list)) :
                /\ wav_list' = ApplyIdx(wav_list, idx)
                /\ feat_list' = ApplyIdx(feat_list, idx)
       ELSE UNCHANGED <<wav_list, feat_list>>
    /\ cursor' = 1
    /\ loaded' = <<>>
    /\ UNCHANGED <<gpc, x, h, x_buffer, h_buffer, x_, h_, batch_x, batch_h,
                   batch_target, nwin>>
    /\ UNCHANGED <<inputs, mainvars>>
    /\ npass' = 0
    /\ UNCHANGED <<targeted, errors>>

(***************************************************************************)
(* save_checkpoint and the checkpoint directory. The model's parameters    *)
(* are abstracted to the sequence of loop indices whose update they have   *)
(* received; a checkpoint also remembers, as history, the loop indices the *)
(* saving run had processed when it wrote the file.                        *)
(***************************************************************************)
\* lines 108-114: checkpoint-<iterations>.pkl is created or overwritten
save_checkpoint(dir, m, its, hist) ==
    {c \in dir : c.iterations # its}
        \cup {[iterations |-> its, model |-> m, optimizer |-> Len(m), seen |-> hist]}

LoopStartNext(its) == its + 1

\* range(iterations, n_iters): the first loop index
LoopStart(its) == its

SaveDueBefore(idx, every) == idx % every = 0

\* (i + 1) % args.checkpoint == 0
SaveDue(idx, every) == (idx + 1) % every = 0

\* (i + 1) % args.interval == 0
ReportDue(idx, every) == (idx + 1) % every = 0

SaveLabelIndex(idx) == idx

\* save_checkpoint(..., i + 1)
SaveLabel(idx) == idx + 1

LossTargetWhole(t) == t

\* batch_target[model.receptive_field:]
LossTarget(t) == Drop(t, receptive_field)

cuda_assumed(a) == TRUE

\* torch.cuda.is_available(), a property of the machine the run is on
cuda_is_available(a) == a.cuda

torch_load_or_fresh(dir, k) ==
    IF \E c \in dir : c.iterations = k
    THEN {c \in dir : c.iterations = k}
    ELSE {[iterations |-> 0, model |-> <<>>, optimizer |-> 0, seen |-> {}]}

\* torch.load(args.resume): the checkpoint file of that name, if there is one
torch_load(dir, k) == {c \in dir : c.iterations = k}

\* the values one batch can add to the rolling counters
LossValues == {1, 2}
TimeValues == {1, 2}

(***************************************************************************)
(* __main__                                                                *)
(***************************************************************************)
\* lines 119-177: a new invocation parses its arguments and builds a fresh
\* network and optimizer
StartRun ==
    /\ dpc \in {"idle", "done", "exit", "crash"}
    /\ run < Len(plan)
    /\ run' = run + 1
    /\ args' = plan[run + 1]
    /\ model' = <<>>
    /\ dpc' = "gpu"
    /\ gpc' = "undefined"
    /\ exit_code' = None
    /\ saves' = <<>> /\ seen' = {} /\ nacc' = 0
    /\ report' = <<>> /\ checkpoint' = <<>> /\ loss_target' = <<>>
    /\ iterations' = None /\ i' = 0 /\ loss' = 0 /\ total' = 0
    /\ wav_list' = <<>> /\ feat_list' = <<>> /\ cursor' = 0
    /\ x' = <<>> /\ h' = <<>> /\ x_buffer' = <<>> /\ h_buffer' = <<>>
    /\ x_' = <<>> /\ h_' = <<>>
    /\ batch_x' = <<>> /\ batch_h' = <<>> /\ batch_target' = <<>>
    /\ nwin' = 0 /\ loaded' = <<>>
    /\ UNCHANGED <<inputs, store>>
    /\ npass' = 0 /\ targeted' = <<>> /\ errors' = 0

\* lines 180-182 and 188-201: the accelerator is there; the transforms and
\* the generator object are created (its body runs at the first next())
SendToGpu ==
    /\ dpc = "gpu" /\ cuda_is_available(args)
    /\ gpc' = "init"
    /\ dpc' = "resume"
    /\ UNCHANGED <<inputs, wav_list, feat_list, cursor, x, h, x_buffer, h_buffer,
                   x_, h_, batch_x, batch_h, batch_target, nwin, loaded>>
    /\ UNCHANGED <<run, args, model, iterations, i, loss, total, loss_target,
                   checkpoint, exit_code, store, saves, report, seen, nacc>>
    /\ UNCHANGED <<npass, targeted, errors>>

\* lines 183-185: no accelerator: log an error, sys.exit(1)
NoGpu ==
    /\ dpc = "gpu" /\ ~cuda_is_available(args)
    /\ dpc' = "exit"
    /\ exit_code' = 1
    /\ UNCHANGED <<inputs, genvars>>
    /\ UNCHANGED <<run, args, model, iterations, i, loss, total, loss_target,
                   checkpoint, store, saves, report, seen, nacc>>
    /\ errors' = errors + 1
    /\ UNCHANGED <<npass, targeted>>

\* lines 204-209 and 214-215: restore model, optimizer and counter
ResumeLoad ==
    /\ dpc = "resume" /\ args.resume # None
    /\ \E c \in torch_load(store, args.resume) :
        /\ checkpoint' = c
        /\ model' = c.model
        /\ iterations' = c.iterations
        /\ i' = LoopStart(c.iterations)
    /\ loss' = 0 /\ total' = 0 /\ nacc' = 0
    /\ dpc' = "loop"
    /\ UNCHANGED <<inputs, genvars>>
    /\ UNCHANGED <<run, args, loss_target, exit_code, store, saves, report, seen>>
    /\ UNCHANGED <<npass, targeted, errors>>

\* line 205 raises: there is no such checkpoint file
ResumeFail ==
    /\ dpc = "resume" /\ args.resume # None
    /\ torch_load(store, args.resume) = {}
    /\ dpc' = "crash"
    /\ exit_code' = 1
    /\ UNCHANGED <<inputs, genvars>>
    /\ UNCHANGED <<run, args, model, iterations, i, loss, total, loss_target,
                   checkpoint, store, saves, report, seen, nacc>>
    /\ UNCHANGED <<npass, targeted, errors>>

\* lines 210-211 and 214-215: a fresh run
NoResume ==
    /\ dpc = "resume" /\ args.resume = None
    /\ iterations' = 0
    /\ i' = LoopStart(0)
    /\ loss' = 0 /\ total' = 0 /\ nacc' = 0
    /\ dpc' = "loop"
    /\ UNCHANGED <<inputs, genvars>>
    /\ UNCHANGED <<run, args, model, loss_target, checkpoint, exit_code, store,
                   saves, report, seen>>
    /\ UNCHANGED <<npass, targeted, errors>>

\* lines 216-218: the loop has an index left; ask the generator for a batch
PullBatch ==
    /\ dpc = "loop" /\ i < args.n_iters
    /\ dpc' = "pull"
    /\ UNCHANGED <<inputs, genvars>>
    /\ UNCHANGED <<run, args, model, iterations, i, loss, total, loss_target,
                   checkpoint, exit_code, store, saves, report, seen, nacc>>
    /\ UNCHANGED <<npass, targeted, errors>>

\* lines 219-228: forward, loss on the positions from receptive_field on,
\* parameter update, rolling counters
TrainStep ==
    /\ dpc = "update"
    /\ loss_target' = LossTarget(batch_target)
    /\ model' = Append(model, i)
    /\ seen' = seen \cup {i}
    /\ \E bl \in LossValues, bt \in TimeValues :
        /\ loss' = loss + bl
        /\ total' = total + bt
    /\ nacc' = nacc + 1
    /\ dpc' = "report"
    /\ UNCHANGED <<inputs, genvars>>
    /\ UNCHANGED <<run, args, iterations, i, checkpoint, exit_code, store,
                   saves, report>>
    /\ targeted' = Append(targeted, loss_target')
    /\ UNCHANGED <<npass, errors>>

\* lines 231-239: log the means over the interval, reset the counters;
\* the report keeps the iteration it was made at, the divisor of the means
\* and the number of iterations the counters had accumulated
ReportProgress ==
    /\ dpc = "report" /\ ReportDue(i, args.interval)
    /\ report' = [iter |-> i + 1, per |-> args.interval, n |-> nacc]
    /\ total' = 0 /\ loss' = 0 /\ nacc' = 0
    /\ dpc' = "save"
    /\ UNCHANGED <<inputs, genvars>>
    /\ UNCHANGED <<run, args, model, iterations, i, loss_target, checkpoint,
                   exit_code, store, saves, seen>>
    /\ UNCHANGED <<npass, targeted, errors>>

\* line 231 false
SkipReport ==
    /\ dpc = "report" /\ ~ReportDue(i, args.interval)
    /\ dpc' = "save"
    /\ UNCHANGED <<inputs, genvars>>
    /\ UNCHANGED <<run, args, model, iterations, i, loss, total, loss_target,
                   checkpoint, exit_code, store, saves, report, seen, nacc>>
    /\ UNCHANGED <<npass, targeted, errors>>

\* lines 242-243, then the next loop index
SaveIntermediate ==
    /\ dpc = "save" /\ SaveDue(i, args.checkpoint)
    /\ store' = save_checkpoint(store, model, SaveLabel(i), seen)
    /\ saves' = Append(saves, [iterations |-> SaveLabel(i), done |-> i + 1,
                               at |-> "loop"])
    /\ i' = i + 1
    /\ dpc' = "loop"
    /\ UNCHANGED <<inputs, genvars>>
    /\ UNCHANGED <<run, args, model, iterations, loss, total, loss_target,
                   checkpoint, exit_code, report, seen, nacc>>
    /\ UNCHANGED <<npass, targeted, errors>>

\* line 242 false, then the next loop index
SkipIntermediate ==
    /\ dpc = "save" /\ ~SaveDue(i, args.checkpoint)
    /\ i' = i + 1
    /\ dpc' = "loop"
    /\ UNCHANGED <<inputs, genvars>>
    /\ UNCHANGED <<run, args, model, iterations, loss, total, loss_target,
                   checkpoint, exit_code, store, saves, report, seen, nacc>>
    /\ UNCHANGED <<npass, targeted, errors>>

\* line 246: the loop is over (or never ran): save the final model
SaveFinal ==
    /\ dpc = "loop" /\ ~(i < args.n_iters)
    /\ store' = save_checkpoint(store, model, args.n_iters, seen)
    /\ saves' = Append(saves, [iterations |-> args.n_iters, done |-> i,
                               at |-> "final"])
    /\ dpc' = "done"
    /\ exit_code' = 0
    /\ UNCHANGED <<inputs, genvars>>
    /\ UNCHANGED <<run, args, model, iterations, i, loss, total, loss_target,
                   checkpoint, report, seen, nacc>>
    /\ UNCHANGED <<npass, targeted, errors>>

(***************************************************************************)
(* Inputs.                                                                 *)
(***************************************************************************)
\* waveform and feature lengths of one file: extraction may drift
LenPairs ==
    {p \in [m : 0..MaxLen, n : 0..MaxLen] : p.m - p.n <= MaxDrift /\ p.n - p.m <= MaxDrift}
\* files of corpora of several files
LongPairs == {[m |-> MaxLen - 1, n |-> MaxLen], [m |-> MaxLen, n |-> MaxLen]}
Corpora ==
    {<<p>> : p \in LenPairs}
        \cup UNION {[1..k -> LongPairs] : k \in 2..MaxFiles}

\* section 8 of the specification: one file of 50000 samples,
\* receptive_field = 2000, batch_size = 20000
Scenario ==
    [corpus |-> <<[m |-> 50000, n |-> 50000]>>, receptive_field |-> 2000,
     batch_size |-> 20000]

GenSettings ==
    [corpus : Corpora, receptive_field : 0..MaxReceptive,
     batch_size : {None} \cup 1..MaxBatch]

FreshArgs(its, every, per) ==
    [n_iters |-> its, checkpoint |-> every, interval |-> per, resume |-> None,
     cuda |-> TRUE]
NoCudaArgs ==
    [n_iters |-> 1, checkpoint |-> 1, interval |-> 1, resume |-> None, cuda |-> FALSE]

\* the invocation that drives the generator through the scenario
ScenarioPlans == {<<FreshArgs(GenIters, MaxCheckpoint, 1), NoCudaArgs>>}

\* the invocations that drive the generator
GenPlans ==
    {<<FreshArgs(GenIters, MaxCheckpoint, 1), second>> :
        second \in {NoCudaArgs}
            \cup {[n_iters |-> GenIters + 2, checkpoint |-> MaxCheckpoint,
                   interval |-> MaxInterval, resume |-> r, cuda |-> TRUE] :
                        r \in {GenIters, GenIters + 1}}}

\* the invocations that exercise the driver: a first run from scratch and
\* a second run with any arguments
TrainPlans ==
    LET OnGpu == [n_iters : 0..MaxIters, checkpoint : 1..MaxCheckpoint,
                  interval : 1..MaxInterval, resume : {None} \cup 0..MaxIters,
                  cuda : {TRUE}]
        \* on a machine without accelerator, with or without --resume
        OffGpu == {[NoCudaArgs EXCEPT !.resume = r] : r \in {None} \cup 0..MaxIters}
    IN  {<<FreshArgs(n, c, 1), second>> :
            n \in 0..MaxIters, c \in 1..MaxCheckpoint, second \in OnGpu \cup OffGpu}
            \cup {<<first, second>> : first \in OffGpu, second \in OnGpu}

\* the generator settings that feed the driver: one file, either mode
TrainSettings ==
    [corpus : {<<[m |-> MaxLen, n |-> MaxLen]>>}, receptive_field : {1},
     batch_size : {None, 1}]

InitState ==
    /\ gpc = "undefined"
    /\ wav_list = <<>> /\ feat_list = <<>> /\ cursor = 0
    /\ x = <<>> /\ h = <<>> /\ x_buffer = <<>> /\ h_buffer = <<>>
    /\ x_ = <<>> /\ h_ = <<>>
    /\ batch_x = <<>> /\ batch_h = <<>> /\ batch_target = <<>>
    /\ nwin = 0 /\ loaded = <<>>
    /\ run = 0 /\ dpc = "idle"
    /\ args = <<>> /\ model = <<>>
    /\ iterations = None /\ i = 0 /\ loss = 0 /\ total = 0
    /\ loss_target = <<>> /\ checkpoint = <<>> /\ exit_code = None
    /\ store = {} /\ saves = <<>> /\ report = <<>>
    /\ seen = {} /\ nacc = 0
    /\ npass = 0 /\ targeted = <<>> /\ errors = 0

\* the generator on every small corpus, driven by a fixed training plan
InitSmall ==
    /\ \E g \in GenSettings :
        /\ corpus = g.corpus
        /\ receptive_field = g.receptive_field
        /\ batch_size = g.batch_size
    /\ plan \in GenPlans
    /\ InitState

InitScenario ==
    /\ corpus = Scenario.corpus
    /\ receptive_field = Scenario.receptive_field
    /\ batch_size = Scenario.batch_size
    /\ plan \in ScenarioPlans
    /\ InitState

Init == InitSmall \/ InitScenario

\* the driver on every small plan, fed by a fixed corpus
InitTrain ==
    /\ \E g \in TrainSettings :
        /\ corpus = g.corpus
        /\ receptive_field = g.receptive_field
        /\ batch_size = g.batch_size
    /\ plan \in TrainPlans
    /\ InitState

Next ==
    \/ GenStart
    \/ GenLoad
    \/ GenWindow
    \/ GenAdvance
    \/ GenFileDone
    \/ GenUtterance
    \/ GenUtteranceDone
    \/ GenReshuffle
    \/ StartRun
    \/ SendToGpu
    \/ NoGpu
    \/ ResumeLoad
    \/ ResumeFail
    \/ NoResume
    \/ PullBatch
    \/ TrainStep
    \/ ReportProgress
    \/ SkipReport
    \/ SaveIntermediate
    \/ SkipIntermediate
    \/ SaveFinal

Spec == Init /\ [][Next]_vars
SpecTrain == InitTrain /\ [][Next]_vars
\* one thread of control: a step that can be taken is taken
FairSpec == InitSmall /\ [][Next]_vars /\ WF_vars(Next)

(***************************************************************************)
(* Properties.                                                             *)
(***************************************************************************)
CeilDiv(a, b) == (a + b - 1) \div b
Range(s) == {s[j] : j \in 1..Len(s)}

\* the stem of the file the generator loaded last
CurrentStem == loaded[Len(loaded)]
\* the raw, aligned waveform of that file
CurrentAligned ==
    validate_length(ReadWav(WavPath(CurrentStem)), ReadFeat(FeatPath(CurrentStem))).x
\* raw samples lo .. hi - 1 of the file with stem s
Positions(s, lo, hi) == IF lo < hi THEN <<Run("x", s, lo, hi)>> ELSE <<>>

\* fixed-batch mode, the drain loop of the current file has just ended
FileDrained == batch_size # None /\ gpc = "for" /\ loaded # <<>>

\* C1 as stated: when the drain loop of a file of aligned length L ends,
\* the number of windows yielded from it is floor((L - R - B) / B) if
\* L > R + B and zero otherwise.
C1_Floor ==
    FileDrained =>
        nwin = (IF Length(x) > receptive_field + batch_size
                THEN (Length(x) - receptive_field - batch_size) \div batch_size
                ELSE 0)

\* C1 amended: when the drain loop of a file of aligned length L ends, the
\* number of windows yielded from it is ceil((L - R - B) / B) if L > R + B
\* and zero otherwise.
C1_Ceil ==
    FileDrained =>
        nwin = (IF Length(x) > receptive_field + batch_size
                THEN CeilDiv(Length(x) - receptive_field - batch_size, batch_size)
                ELSE 0)

C1_Witness ==
    /\ FileDrained
    /\ nwin = 2
    /\ (Length(x) - receptive_field - batch_size) % batch_size # 0

\* C2: every request for the next batch eventually returns a batch.
C2_EveryRequestReturns == (dpc = "pull") ~> (dpc = "update")

\* the generator is suspended at a yield
Yielded == gpc \in {"yieldA", "yieldB"}
\* the raw slice the yielded batch was made from
RawSlice == IF gpc = "yieldA" THEN x_ ELSE CurrentAligned

\* C3: in every yielded batch, of either mode, target[i] = input[i + 1]
\* wherever both exist; the input is the slice of raw samples without its
\* last sample and the target the same slice without its first sample.
C3_ShiftByOne ==
    Yielded =>
        /\ \A k \in 1..Length(batch_target) :
            k + 1 <= Length(batch_x[1]) =>
                Elem(batch_target, k) = Elem(batch_x[1], k + 1)
        /\ batch_x[1] = wav_transform(DropLast(RawSlice))
        /\ batch_target = wav_transform(Drop(RawSlice, 1))

C3_Witness ==
    gpc = "yieldA" /\ Length(batch_target) >= 2 /\ Length(batch_x[1]) >= 2

\* yielded windows of the current file sit at multiples of batch_size
C4_Inv ==
    gpc = "yieldA" =>
        /\ Length(x_) = receptive_field + batch_size
        /\ \A k \in 1..Length(x_) :
            Elem(x_, k) = Elem(x, (nwin - 1) * batch_size + k)
\* a step that advances the buffers drops batch_size elements of each; a
\* step that yields a further window of the same file shares exactly
\* receptive_field positions with the window before
C4_Step ==
    /\ (gpc = "yieldA" /\ gpc' = "while") =>
        /\ x_buffer' = Drop(x_buffer, batch_size)
        /\ Length(x_buffer') = Length(x_buffer) - batch_size
        /\ Length(h_buffer') = Length(h_buffer) - batch_size
    /\ (gpc = "while" /\ gpc' = "yieldA" /\ nwin >= 1) =>
        Cardinality(Elems(x_) \cap Elems(x_')) = receptive_field

\* C4: in fixed-batch mode the k-th window of a file is the slice of raw
\* positions [k*B, k*B + R + B) of its aligned sequence, of length R + B;
\* the buffers advance by B between windows and consecutive windows of a
\* file overlap in exactly R positions.
C4_Windows == []C4_Inv /\ [][C4_Step]_vars

C4_Witness == gpc = "yieldA" /\ nwin >= 2 /\ receptive_field >= 1

InScenario ==
    /\ corpus = Scenario.corpus
    /\ receptive_field = Scenario.receptive_field
    /\ batch_size = Scenario.batch_size

\* C5: one file of 50000 aligned samples, receptive_field 2000 and
\* batch_size 20000: every pass yields exactly two windows, the first over
\* samples [0, 22000) and the second over [20000, 42000), in every pass.
C5_Scenario ==
    InScenario =>
        /\ gpc = "yieldA" =>
            \/ nwin = 1 /\ x_ = Positions(1, 0, 22000)
            \/ nwin = 2 /\ x_ = Positions(1, 20000, 42000)
        /\ FileDrained => nwin = 2
        /\ Len(loaded) <= 1

\* the second window of the second pass
C5_Witness == InScenario /\ gpc = "yieldA" /\ nwin = 2 /\ Len(model) = 3

\* fixed-batch mode, the locals x and h hold the aligned pair
AlignedPair == batch_size # None /\ gpc \in {"while", "yieldA"}

\* C6: validate_length returns two sequences of length min(m, n), each the
\* prefix of its own input, and its assertion never fails (in
\* whole-utterance mode x and h are seen after their transforms).
C6_Aligned ==
    /\ gpc # "raised"
    /\ AlignedPair =>
        LET m == corpus[CurrentStem].m
            n == corpus[CurrentStem].n
        IN  /\ Length(x) = Min(m, n) /\ Length(h) = Min(m, n)
            /\ \A k \in 1..Min(m, n) :
                /\ Elem(x, k) = Elem(ReadWav(WavPath(CurrentStem)), k)
                /\ Elem(h, k) = Elem(ReadFeat(FeatPath(CurrentStem)), k)
    /\ gpc = "yieldB" =>
        LET m == corpus[CurrentStem].m
            n == corpus[CurrentStem].n
        IN  /\ Length(x) = Min(m, n) /\ Length(h) = Min(m, n)
            /\ x = wav_transform(Take(ReadWav(WavPath(CurrentStem)), Min(m, n)))
            /\ h = feat_transform(Take(ReadFeat(FeatPath(CurrentStem)), Min(m, n)))

C6_Witness ==
    /\ AlignedPair
    /\ corpus[CurrentStem].m < corpus[CurrentStem].n
    /\ Length(h) >= 1

\* a resumed run is at the first iteration of its loop
FirstResumedIteration ==
    /\ args # <<>> /\ args.resume # None
    /\ dpc \in {"pull", "update"}
    /\ seen = {}

\* C7 as stated: a run resumed from counter k first processes loop index
\* k, and the run that saved the checkpoint had processed index k before
\* the save.
C7_Reexecuted ==
    FirstResumedIteration =>
        /\ i = checkpoint.iterations
        /\ i \in checkpoint.seen

\* C7 amended: a run resumed from counter k first processes loop index k
\* (if it processes any), and the run that saved the checkpoint had
\* processed only loop indices below k before the save.
C7_NotReexecuted ==
    FirstResumedIteration =>
        /\ i = checkpoint.iterations
        /\ \A j \in checkpoint.seen : j < i

C7_Witness ==
    /\ FirstResumedIteration /\ dpc = "update"
    /\ checkpoint.seen # {}

IsDue(c) == c % args.checkpoint = 0
\* the saves the loop makes while the completed count goes from lo to hi
LoopSaves(lo, hi) ==
    LET due == SelectSeq([j \in 1..(hi - lo) |-> lo + j], IsDue)
    IN  [j \in 1..Len(due) |-> [iterations |-> due[j], done |-> due[j], at |-> "loop"]]
InLoop == dpc \in {"loop", "pull", "update", "report", "save"}

\* C8: a run from start index s saves once at every multiple of
\* `checkpoint` in (s, n_iters], at the moment the completed count reaches
\* it, at no other count, and once more, labelled n_iters, after the loop.
C8_Saves ==
    /\ InLoop => saves = LoopSaves(iterations, i)
    /\ dpc = "done" =>
        /\ Len(saves) >= 1
        /\ SubSeq(saves, 1, Len(saves) - 1) = LoopSaves(iterations, args.n_iters)
        /\ saves[Len(saves)].iterations = args.n_iters
        /\ saves[Len(saves)].at = "final"

C8_Witness ==
    /\ dpc = "done" /\ args.resume # None
    /\ Len(saves) = 3
    /\ args.n_iters % args.checkpoint = 0

\* a progress report has just been made
Reported == dpc = "save" /\ ReportDue(i, args.interval)

\* C9: at every progress report the rolling counters hold the sums over
\* exactly `interval` iterations, and both are zero right after it.
C9_FullInterval ==
    Reported =>
        /\ report.iter = i + 1
        /\ report.n = args.interval
        /\ loss = 0 /\ total = 0

\* the for loop is exhausted
PassOver == gpc = "for" /\ cursor > Len(wav_list)

C10_Inv ==
    /\ \A a, b \in 1..Len(loaded) : loaded[a] = loaded[b] => a = b
    /\ gpc \in {"for", "while", "yieldA", "yieldB"} =>
        \A j \in 1..Len(loaded) : loaded[j] = wav_list[j][2]
    /\ PassOver =>
        /\ Len(loaded) = Len(corpus)
        /\ Range(loaded) = 1..Len(corpus)
C10_Step ==
    (PassOver /\ cursor' # cursor) =>
        /\ cursor' = 1
        /\ loaded' = <<>>
        /\ Len(wav_list') = Len(wav_list)
        /\ Range(wav_list') = Range(wav_list)

\* C10: the corpus is traversed in passes: in a pass every pair is loaded
\* exactly once, none twice before the pass is over, and at the end of a
\* pass the list is permuted again and the cursor restarts at the first
\* position.
C10_Passes == []C10_Inv /\ [][C10_Step]_vars

C10_Witness ==
    /\ PassOver /\ Len(loaded) = 2
    /\ loaded[1] = 2
    /\ Len(model) >= 3

\* the two parallel lists exist
ListsBuilt == gpc \in {"for", "while", "yieldA", "yieldB"}
\* the files an array has elements of
Stems(v) == {v[j].stem : j \in 1..Len(v)}
\* the files the waveform part and the feature part of the yielded batch
\* come from
BatchWavStems == Stems(batch_x[1]) \cup Stems(batch_target)
BatchFeatStems == UNION {Stems(batch_h[1][d]) : d \in 1..Len(batch_h[1])}

\* C11: after the initial shuffle and after every re-shuffle, wav_list and
\* feat_list are permutations of the sorted lists of the corpus and
\* feat_list[j] is the feature path of the stem of wav_list[j]; the
\* waveform and the features of a yielded batch are of the same file.
C11_Paired ==
    /\ ListsBuilt =>
        /\ Len(wav_list) = Len(corpus) /\ Len(feat_list) = Len(corpus)
        /\ Range(wav_list) = {<<"wav", s>> : s \in 1..Len(corpus)}
        /\ Range(feat_list) = {<<"h5", s>> : s \in 1..Len(corpus)}
        /\ \A j \in 1..Len(wav_list) : feat_list[j] = <<"h5", wav_list[j][2]>>
    /\ Yielded =>
        \A s \in BatchWavStems, t \in BatchFeatStems : s = t

\* a batch of the file sorted last, yielded first in a later pass
C11_Witness ==
    /\ Len(corpus) = 2 /\ batch_size = None
    /\ gpc = "yieldB" /\ npass = 1 /\ Len(model) >= 2
    /\ wav_list[1][2] = 2
    /\ BatchWavStems = {2} /\ BatchFeatStems = {2}

WholeMode == batch_size = None
\* the raw, aligned features of the file the generator loaded last
CurrentAlignedFeat ==
    validate_length(ReadWav(WavPath(CurrentStem)), ReadFeat(FeatPath(CurrentStem))).y

\* in whole-utterance mode every file loaded in this pass has given one
\* batch, made of the whole aligned sequence
C12_Inv ==
    WholeMode =>
        /\ gpc \in {"for", "yieldB"} => npass = Len(loaded)
        /\ gpc = "yieldB" =>
            /\ nwin = 1
            /\ batch_x[1] = wav_transform(DropLast(CurrentAligned))
            /\ batch_target = wav_transform(Drop(CurrentAligned, 1))
            /\ batch_h[1] = Transpose(feat_transform(DropLast(CurrentAlignedFeat)))
        /\ PassOver => npass = Len(corpus)
\* a step that loads a file yields one batch, and no other step yields
C12_Step ==
    WholeMode =>
        /\ loaded' # loaded /\ loaded' # <<>> =>
            npass' = npass + 1 /\ gpc' = "yieldB" /\ dpc' = "update"
        /\ npass' # npass /\ npass' # 0 =>
            npass' = npass + 1 /\ loaded' = Append(loaded, wav_list[cursor][2])

\* C12: in whole-utterance mode the generator yields exactly one batch per
\* file per pass, whatever the length of the file, made of the whole
\* aligned sequence; a pass yields as many batches as the corpus has files.
C12_OnePerFile == []C12_Inv /\ [][C12_Step]_vars

\* the end of a later pass over two files
C12_Witness ==
    /\ WholeMode /\ PassOver
    /\ Len(corpus) = 2 /\ npass = 2 /\ Len(model) >= 4
    /\ corpus[CurrentStem].m < corpus[CurrentStem].n

\* C13: in fixed-batch mode no yielded window is shorter than
\* receptive_field + batch_size, and when the drain loop of a file ends the
\* buffer that is left and dropped is shorter than
\* receptive_field + batch_size: nothing that would fill a complete window
\* is left behind.
C13_NoWindowLeft ==
    /\ gpc = "yieldA" =>
        /\ Length(x_) = receptive_field + batch_size
        /\ Length(h_) = receptive_field + batch_size
    /\ FileDrained =>
        /\ Length(x_buffer) < receptive_field + batch_size
        /\ Length(h_buffer) < receptive_field + batch_size

\* the current invocation is on a machine without accelerator
OffGpuRun == run >= 1 /\ ~args.cuda

\* such a run is at the accelerator check or has exited there: it has
\* created no generator and pulled no batch, made no update, loaded no
\* checkpoint and written none, and it exits with code 1 after one
\* logged error
C14_Inv ==
    OffGpuRun =>
        /\ dpc \in {"gpu", "exit"}
        /\ gpc = "undefined" /\ npass = 0 /\ batch_x = <<>>
        /\ seen = {} /\ model = <<>> /\ nacc = 0
        /\ checkpoint = <<>> /\ iterations = None
        /\ saves = <<>>
        /\ dpc = "exit" => exit_code = 1 /\ errors = 1
\* and it leaves the checkpoint directory as it found it
C14_Step == (OffGpuRun /\ run' = run) => store' = store

\* C14: without a compute accelerator the program logs an error and exits
\* with a nonzero code at startup: no batch is pulled, no training
\* iteration runs, no checkpoint is loaded and none is written.
C14_NoAccelerator == []C14_Inv /\ [][C14_Step]_vars

\* the run was asked to resume from a checkpoint that is there
C14_Witness ==
    /\ OffGpuRun /\ dpc = "exit"
    /\ args.resume # None
    /\ torch_load(store, args.resume) # {}

\* the current invocation, on a machine with accelerator, was asked to
\* resume from a checkpoint file that is not there
ResumeMissing ==
    /\ run >= 1 /\ args.cuda /\ args.resume # None
    /\ \A c \in store : c.iterations # args.resume

\* such a run gets no further than the resume block: its counter is
\* never assigned (0 included), it pulls no batch, makes no update and
\* writes no checkpoint, and it ends with exit code 1
C15_Inv ==
    (ResumeMissing /\ dpc # "gpu") =>
        /\ dpc \in {"resume", "crash"}
        /\ iterations = None
        /\ npass = 0 /\ batch_x = <<>>
        /\ seen = {} /\ model = <<>> /\ nacc = 0
        /\ saves = <<>>
        /\ dpc = "crash" => exit_code = 1
C15_Step == (ResumeMissing /\ run' = run) => store' = store

\* C15: when resume is given and loading the checkpoint fails, the run
\* aborts: the iteration counter is not set to 0 as a fallback, no training
\* iteration runs and no checkpoint, the final one included, is written.
C15_ResumeFailure == []C15_Inv /\ [][C15_Step]_vars

\* the run has aborted; the directory holds other checkpoints
C15_Witness ==
    /\ ResumeMissing /\ dpc = "crash"
    /\ store # {}
    /\ args.n_iters >= 1

\* in fixed-batch mode the buffers hold what is left of the current file
\* and nothing else, and a yielded window and its batch are of that file
C16_Inv ==
    batch_size # None =>
        /\ gpc \in {"while", "yieldA"} =>
            /\ Stems(x_buffer) \subseteq {CurrentStem}
            /\ Stems(h_buffer) \subseteq {CurrentStem}
            /\ \E k \in 0..Length(x) :
                x_buffer = Drop(x, k) /\ h_buffer = Drop(h, k)
        /\ gpc = "yieldA" =>
            /\ Stems(x_) = {CurrentStem} /\ Stems(h_) = {CurrentStem}
            /\ BatchWavStems \subseteq {CurrentStem}
            /\ BatchFeatStems \subseteq {CurrentStem}
\* at a file boundary the buffers become the new file's aligned pair,
\* whatever they held
C16_Step ==
    (batch_size # None /\ loaded' # loaded /\ gpc' = "while") =>
        /\ x_buffer' = x' /\ h_buffer' = h'
        /\ Stems(x') \subseteq {wav_list[cursor][2]}

\* C16: every window yielded in fixed-batch mode consists of samples and
\* frames of one file: the buffers are seeded anew with the current file
\* only at each file boundary, so the remainder of a file is never part of
\* a window of the next file.
C16_SingleFile == []C16_Inv /\ [][C16_Step]_vars

\* the first window of the second file of a pass, after the first file
\* left a remainder
C16_Witness ==
    /\ batch_size # None /\ gpc = "yieldA"
    /\ Len(loaded) = 2 /\ nwin = 1
    /\ npass >= 2

\* the files and raw index ranges an array covers, in order
Span(v) == [j \in 1..Len(v) |-> <<v[j].stem, v[j].lo, v[j].hi>>]

\* the input waveform and every row of the features of the yielded batch
\* have `steps` time steps and cover the same raw index range of the same
\* file
BatchAligned(steps) ==
    /\ Len(batch_x) = 1 /\ Len(batch_h) = 1
    /\ Length(batch_x[1]) = steps
    /\ Len(batch_h[1]) = FeatWidth
    /\ \A d \in 1..Len(batch_h[1]) :
        /\ Length(batch_h[1][d]) = steps
        /\ Span(batch_h[1][d]) = Span(batch_x[1])
        /\ Stems(batch_h[1][d]) \subseteq {CurrentStem}
    /\ Stems(batch_x[1]) \subseteq {CurrentStem}
\* the two buffers have the same length and hold the same raw positions
BuffersTogether ==
    /\ Length(x_buffer) = Length(h_buffer)
    /\ Span(x_buffer) = Span(h_buffer)

\* C17 as stated: in every yielded batch the feature window and the input
\* waveform window cover the same raw index range of the same file and
\* have receptive_field + batch_size - 1 time steps in fixed-batch mode and
\* L - 1 in whole-utterance mode, L the aligned length of the file; the
\* two buffers always have equal length and advance together.
C17_Stated ==
    /\ gpc = "yieldA" => BatchAligned(receptive_field + batch_size - 1)
    /\ gpc = "yieldB" => BatchAligned(Length(CurrentAligned) - 1)
    /\ BuffersTogether

\* C17 amended: the same, with L - 1 time steps in whole-utterance mode
\* when L >= 1 and 0 time steps when the aligned file is empty.
C17_SameRange ==
    /\ gpc = "yieldA" => BatchAligned(receptive_field + batch_size - 1)
    /\ gpc = "yieldB" =>
        BatchAligned(IF Length(CurrentAligned) >= 1
                     THEN Length(CurrentAligned) - 1 ELSE 0)
    /\ BuffersTogether

\* the second window of a file whose waveform is longer than its features
C17_Witness ==
    /\ gpc = "yieldA" /\ nwin = 2
    /\ corpus[CurrentStem].m > corpus[CurrentStem].n
    /\ Length(batch_x[1]) >= 1
    /\ receptive_field >= 1

\* no element of u is an element of v
Disjoint(u, v) ==
    \A a \in 1..Len(u), b \in 1..Len(v) :
        u[a].stem # v[b].stem \/ u[a].hi <= v[b].lo \/ v[b].hi <= u[a].lo

\* C18: in fixed-batch mode, with the loss taken on the target positions
\* from receptive_field on, every window gives exactly batch_size - 1 loss
\* targets (the k-th window of a file: the raw samples
\* (k-1)*B + R + 1 .. k*B + R - 1), and within one pass over a file the
\* loss targets of different windows are pairwise disjoint.
C18_LossTargets ==
    batch_size # None =>
        /\ \A j \in 1..Len(targeted) :
            /\ Length(targeted[j]) = batch_size - 1
            /\ loaded # <<>> =>
                targeted[j] =
                    wav_transform(Positions(CurrentStem,
                        (j - 1) * batch_size + receptive_field + 1,
                        j * batch_size + receptive_field))
        /\ \A a, b \in 1..Len(targeted) :
            a # b => Disjoint(targeted[a], targeted[b])

\* both windows of the 50000-sample file have been trained on
C18_Witness ==
    /\ InScenario /\ Len(targeted) = 2
    /\ Length(targeted[1]) = 19999 /\ Length(targeted[2]) = 19999
    /\ Elem(targeted[1], 19999).pos = 21999
    /\ Elem(targeted[2], 1).pos = 22001

\* C19: in every checkpoint written by any run, fresh or resumed, the
\* stored iteration counter, which is also the number in the file name,
\* equals the number of optimizer updates applied to the stored model,
\* those made before the resume included.
C19_LabelCountsUpdates ==
    \A c \in store :
        /\ c.iterations = Len(c.model)
        /\ c.iterations = c.optimizer

====
